---- MODULE Spec2Model ----
(***************************************************************************)
(* A model of the maze engine of rust_maze_generator: the per-topology     *)
(* neighbour tables (shapes/*.rs), the grid (GenericMaze::new), the        *)
(* randomized depth-first generator (GenericMaze::generate), the           *)
(* breadth-first solver (GenericMaze::solve) and the driver                *)
(* (main / process_maze / write_output).                                   *)
(*                                                                         *)
(* Cells are numbered 0..N-1 and slots 0..K-1 as in the source.  An        *)
(* Option<usize> of None is the value None, which is no cell index.        *)
(***************************************************************************)
EXTENDS Integers, Sequences, FiniteSets

(* ---- bounds of the model ---- *)
MaxW == 4
MaxH == 4
MaxCells == 12
MaxSolveCells == 6
MaxSolves == 2

(* ---- Option::None, for a neighbour slot and for a missing parent ---- *)
None == -1

GridTypes == {"Rectangular", "Triangular", "Hexagonal", "Octagonal"}

VARIABLES
    grid_type,      \* args.grid_type
    width,          \* args.width
    height,         \* args.height
    all_walls,      \* args.all_walls
    cells,          \* maze.cells: 0..N-1 -> [neighbors, walls]
    visited,        \* generate: visited
    stack,          \* generate: stack (a sequence, top is the last element)
    queue,          \* solve: queue
    solve_visited,  \* solve: visited
    parent,         \* solve: parent (None where the map has no entry)
    current,        \* solve: current of the reconstruction loop
    path,           \* solve: path (before the reverse)
    solution,       \* the value solve returned
    prev_solution,  \* the value the previous call of solve returned
    solves,         \* how many calls of solve have returned
    files,          \* the output files written so far
    svg,            \* the wall lines to_svg drew, as <<cell, slot>>
    pc              \* where the program is

vars == <<grid_type, width, height, all_walls, cells, visited, stack, queue,
          solve_visited, parent, current, path, solution, prev_solution,
          solves, files, svg, pc>>

args == <<grid_type, width, height, all_walls>>
generate_locals == <<visited, stack>>
solve_locals == <<queue, solve_visited, parent, current, path>>

(* ---- genericmaze.rs: index helpers ---- *)
cell_index(x, y, w) == y * w + x

cell_coords(idx, w) == <<idx % w, idx \div w>>

(* ---- shapes: number of slots per cell ---- *)
num_neighbors(shape) ==
    CASE shape = "Rectangular" -> 4
      [] shape = "Triangular"  -> 3
      [] shape = "Hexagonal"   -> 6
      [] shape = "Octagonal"   -> 8

(* a variant with the east and west slots exchanged *)
RectNeighborsEastWestSwapped(w, h, x, y) ==
    [i \in 0..3 |->
        CASE i = 0 -> IF y > 0     THEN cell_index(x, y - 1, w) ELSE None
          [] i = 1 -> IF y < h - 1 THEN cell_index(x, y + 1, w) ELSE None
          [] i = 2 -> IF x > 0     THEN cell_index(x - 1, y, w) ELSE None
          [] i = 3 -> IF x < w - 1 THEN cell_index(x + 1, y, w) ELSE None]

(* ---- rect_shape.rs: 0=N, 1=S, 2=E, 3=W ---- *)
RectNeighbors(w, h, x, y) ==
    [i \in 0..3 |->
        CASE i = 0 -> IF y > 0     THEN cell_index(x, y - 1, w) ELSE None
          [] i = 1 -> IF y < h - 1 THEN cell_index(x, y + 1, w) ELSE None
          [] i = 2 -> IF x < w - 1 THEN cell_index(x + 1, y, w) ELSE None
          [] i = 3 -> IF x > 0     THEN cell_index(x - 1, y, w) ELSE None]

(* a variant whose right slot repeats the left neighbour *)
TriNeighborsRightCopiesLeft(w, h, x, y) ==
    LET is_up == (x + y) % 2 = 0
    IN  [i \in 0..2 |->
            CASE i = 0 -> IF x > 0     THEN cell_index(x - 1, y, w) ELSE None
              [] i = 1 -> IF x > 0     THEN cell_index(x - 1, y, w) ELSE None
              [] i = 2 -> IF is_up
                          THEN IF y < h - 1 THEN cell_index(x, y + 1, w) ELSE None
                          ELSE IF y > 0     THEN cell_index(x, y - 1, w) ELSE None]

(* a variant with the two orientations exchanged *)
TriNeighborsFlipped(w, h, x, y) ==
    LET is_up == (x + y) % 2 = 1
    IN  [i \in 0..2 |->
            CASE i = 0 -> IF x > 0     THEN cell_index(x - 1, y, w) ELSE None
              [] i = 1 -> IF x < w - 1 THEN cell_index(x + 1, y, w) ELSE None
              [] i = 2 -> IF is_up
                          THEN IF y < h - 1 THEN cell_index(x, y + 1, w) ELSE None
                          ELSE IF y > 0     THEN cell_index(x, y - 1, w) ELSE None]

(* ---- tri_shape.rs: 0=left, 1=right, 2=bottom (up) or top (down) ---- *)
TriNeighbors(w, h, x, y) ==
    LET is_up == (x + y) % 2 = 0
    IN  [i \in 0..2 |->
            CASE i = 0 -> IF x > 0     THEN cell_index(x - 1, y, w) ELSE None
              [] i = 1 -> IF x < w - 1 THEN cell_index(x + 1, y, w) ELSE None
              [] i = 2 -> IF is_up
                          THEN IF y < h - 1 THEN cell_index(x, y + 1, w) ELSE None
                          ELSE IF y > 0     THEN cell_index(x, y - 1, w) ELSE None]

(* a variant that forgets the column offset: every column is addressed
   the way the even columns are *)
HexNeighborsNoOffset(w, h, x, y) ==
    [i \in 0..5 |->
        CASE i = 0 -> IF y > 0     THEN cell_index(x, y - 1, w) ELSE None
          [] i = 1 -> IF y < h - 1 THEN cell_index(x, y + 1, w) ELSE None
          [] i = 2 -> IF y > 0 /\ x < w - 1
                      THEN cell_index(x + 1, y - 1, w) ELSE None
          [] i = 3 -> IF x < w - 1 THEN cell_index(x + 1, y, w) ELSE None
          [] i = 4 -> IF y > 0 /\ x > 0
                      THEN cell_index(x - 1, y - 1, w) ELSE None
          [] i = 5 -> IF x > 0 THEN cell_index(x - 1, y, w) ELSE None]

(* ---- hex_shape.rs: 0=N, 1=S, 2=NE, 3=SE, 4=NW, 5=SW ---- *)
HexNeighbors(w, h, x, y) ==
    LET is_odd_col == x % 2 = 1
    IN  [i \in 0..5 |->
            CASE i = 0 -> IF y > 0     THEN cell_index(x, y - 1, w) ELSE None
              [] i = 1 -> IF y < h - 1 THEN cell_index(x, y + 1, w) ELSE None
              [] i = 2 -> IF is_odd_col
                          THEN IF x < w - 1 THEN cell_index(x + 1, y, w) ELSE None
                          ELSE IF y > 0 /\ x < w - 1
                               THEN cell_index(x + 1, y - 1, w) ELSE None
              [] i = 3 -> IF is_odd_col
                          THEN IF y < h - 1 /\ x < w - 1
                               THEN cell_index(x + 1, y + 1, w) ELSE None
                          ELSE IF x < w - 1 THEN cell_index(x + 1, y, w) ELSE None
              [] i = 4 -> IF is_odd_col
                          THEN IF x > 0 THEN cell_index(x - 1, y, w) ELSE None
                          ELSE IF y > 0 /\ x > 0
                               THEN cell_index(x - 1, y - 1, w) ELSE None
              [] i = 5 -> IF is_odd_col
                          THEN IF y < h - 1 /\ x > 0
                               THEN cell_index(x - 1, y + 1, w) ELSE None
                          ELSE IF x > 0 THEN cell_index(x - 1, y, w) ELSE None]

(* ---- oct_shape.rs: 0=N, 1=S, 2=E, 3=W, 4=NE, 5=SE, 6=NW, 7=SW ---- *)
is_octagon(x, y) == (x + y) % 2 = 0

(* a variant that gives the squares diagonal neighbours too *)
OctNeighborsAllDiagonals(w, h, x, y) ==
    [i \in 0..7 |->
        CASE i = 0 -> IF y > 0     THEN cell_index(x, y - 1, w) ELSE None
          [] i = 1 -> IF y < h - 1 THEN cell_index(x, y + 1, w) ELSE None
          [] i = 2 -> IF x < w - 1 THEN cell_index(x + 1, y, w) ELSE None
          [] i = 3 -> IF x > 0     THEN cell_index(x - 1, y, w) ELSE None
          [] i = 4 -> IF x < w - 1 /\ y > 0
                      THEN cell_index(x + 1, y - 1, w) ELSE None
          [] i = 5 -> IF x < w - 1 /\ y < h - 1
                      THEN cell_index(x + 1, y + 1, w) ELSE None
          [] i = 6 -> IF x > 0 /\ y > 0
                      THEN cell_index(x - 1, y - 1, w) ELSE None
          [] i = 7 -> IF x > 0 /\ y < h - 1
                      THEN cell_index(x - 1, y + 1, w) ELSE None]

(* a variant that gives no cell a diagonal neighbour *)
OctNeighborsNoDiagonals(w, h, x, y) ==
    [i \in 0..7 |->
        CASE i = 0 -> IF y > 0     THEN cell_index(x, y - 1, w) ELSE None
          [] i = 1 -> IF y < h - 1 THEN cell_index(x, y + 1, w) ELSE None
          [] i = 2 -> IF x < w - 1 THEN cell_index(x + 1, y, w) ELSE None
          [] i = 3 -> IF x > 0     THEN cell_index(x - 1, y, w) ELSE None
          [] OTHER -> None]

(* a variant that numbers the diagonals clockwise: NE, SE, SW, NW *)
OctNeighborsClockwiseDiagonals(w, h, x, y) ==
    [i \in 0..7 |->
        CASE i = 0 -> IF y > 0     THEN cell_index(x, y - 1, w) ELSE None
          [] i = 1 -> IF y < h - 1 THEN cell_index(x, y + 1, w) ELSE None
          [] i = 2 -> IF x < w - 1 THEN cell_index(x + 1, y, w) ELSE None
          [] i = 3 -> IF x > 0     THEN cell_index(x - 1, y, w) ELSE None
          [] i = 4 -> IF is_octagon(x, y) /\ x < w - 1 /\ y > 0
                      THEN cell_index(x + 1, y - 1, w) ELSE None
          [] i = 5 -> IF is_octagon(x, y) /\ x < w - 1 /\ y < h - 1
                      THEN cell_index(x + 1, y + 1, w) ELSE None
          [] i = 6 -> IF is_octagon(x, y) /\ x > 0 /\ y < h - 1
                      THEN cell_index(x - 1, y + 1, w) ELSE None
          [] i = 7 -> IF is_octagon(x, y) /\ x > 0 /\ y > 0
                      THEN cell_index(x - 1, y - 1, w) ELSE None]

OctNeighbors(w, h, x, y) ==
    [i \in 0..7 |->
        CASE i = 0 -> IF y > 0     THEN cell_index(x, y - 1, w) ELSE None
          [] i = 1 -> IF y < h - 1 THEN cell_index(x, y + 1, w) ELSE None
          [] i = 2 -> IF x < w - 1 THEN cell_index(x + 1, y, w) ELSE None
          [] i = 3 -> IF x > 0     THEN cell_index(x - 1, y, w) ELSE None
          [] i = 4 -> IF is_octagon(x, y) /\ x < w - 1 /\ y > 0
                      THEN cell_index(x + 1, y - 1, w) ELSE None
          [] i = 5 -> IF is_octagon(x, y) /\ x < w - 1 /\ y < h - 1
                      THEN cell_index(x + 1, y + 1, w) ELSE None
          [] i = 6 -> IF is_octagon(x, y) /\ x > 0 /\ y > 0
                      THEN cell_index(x - 1, y - 1, w) ELSE None
          [] i = 7 -> IF is_octagon(x, y) /\ x > 0 /\ y < h - 1
                      THEN cell_index(x - 1, y + 1, w) ELSE None]

(* ---- Shape::init_neighbors, dispatched on the topology ---- *)
init_neighbors(shape, w, h, x, y) ==
    CASE shape = "Rectangular" -> RectNeighbors(w, h, x, y)
      [] shape = "Triangular"  -> TriNeighbors(w, h, x, y)
      [] shape = "Hexagonal"   -> HexNeighbors(w, h, x, y)
      [] shape = "Octagonal"   -> OctNeighbors(w, h, x, y)

(* a variant that starts with every wall absent *)
MazeCellNewNoWalls(k) ==
    [neighbors |-> [i \in 0 .. (k - 1) |-> None],
     walls     |-> [i \in 0 .. (k - 1) |-> FALSE]]

(* ---- MazeCell::new: K absent neighbours, K walls present ---- *)
MazeCellNew(k) ==
    [neighbors |-> [i \in 0 .. (k - 1) |-> None],
     walls     |-> [i \in 0 .. (k - 1) |-> TRUE]]

(* ---- GenericMaze::new ---- *)
GenericMazeNew(shape, w, h) ==
    [idx \in 0 .. (w * h - 1) |->
        [MazeCellNew(num_neighbors(shape)) EXCEPT
            !.neighbors = init_neighbors(shape, w, h,
                                         cell_coords(idx, w)[1],
                                         cell_coords(idx, w)[2])]]

NumCells == width * height
Cells == 0 .. (NumCells - 1)

EndCell == NumCells - 1

(* ---- the state before main has done anything ---- *)
NoCells == [idx \in {} |-> None]

Init ==
    /\ grid_type \in GridTypes
    /\ width \in 0 .. MaxW
    /\ height \in 0 .. MaxH
    /\ width * height <= MaxCells
    /\ all_walls \in BOOLEAN
    /\ cells = NoCells
    /\ visited = NoCells
    /\ stack = << >>
    /\ queue = << >>
    /\ solve_visited = NoCells
    /\ parent = NoCells
    /\ current = None
    /\ path = << >>
    /\ solution = << >>
    /\ prev_solution = << >>
    /\ solves = 0
    /\ files = {}
    /\ svg = {}
    /\ pc = "main"

(* ---- main: width == 0 || height == 0 -> exit(1) ---- *)
MainReject ==
    /\ pc = "main"
    /\ (width = 0 \/ height = 0)
    /\ pc' = "exit1"
    /\ UNCHANGED <<args, cells, generate_locals, solve_locals, solution,
                   prev_solution, solves, files, svg>>

(* a variant that constructs the grid without the check of main *)
BuildUnchecked ==
    /\ pc = "main"
    /\ cells' = GenericMazeNew(grid_type, width, height)
    /\ pc' = "built"
    /\ UNCHANGED <<args, generate_locals, solve_locals, solution,
                   prev_solution, solves, files, svg>>

(* ---- process_maze: GenericMaze::<S>::new(args.width, args.height) ---- *)
Build ==
    /\ pc = "main"
    /\ ~(width = 0 \/ height = 0)
    /\ cells' = GenericMazeNew(grid_type, width, height)
    /\ pc' = "built"
    /\ UNCHANGED <<args, generate_locals, solve_locals, solution,
                   prev_solution, solves, files, svg>>

(* ---- generate: visited = [false; n]; stack.push(0); visited[0] = true ---- *)
GenerateStart ==
    /\ pc = "built"
    /\ ~all_walls
    /\ visited' = [c \in Cells |-> c = 0]
    /\ stack' = <<0>>
    /\ pc' = "generate"
    /\ UNCHANGED <<args, cells, solve_locals, solution, prev_solution,
                   solves, files, svg>>

(* stack.last() *)
Top(st) == st[Len(st)]

(* a variant whose scan stops one slot short *)
UnvisitedSkipLastSlot(cs, vis, cur) ==
    {<<cs[cur].neighbors[e], e>> : e \in
        {i \in DOMAIN cs[cur].neighbors :
            /\ i + 1 \in DOMAIN cs[cur].neighbors
            /\ cs[cur].neighbors[i] # None
            /\ ~vis[cs[cur].neighbors[i]]}}

(* the (neighbor, edge_idx) pairs the scan of the top cell collects *)
Unvisited(cs, vis, cur) ==
    {<<cs[cur].neighbors[e], e>> : e \in
        {i \in DOMAIN cs[cur].neighbors :
            /\ cs[cur].neighbors[i] # None
            /\ ~vis[cs[cur].neighbors[i]]}}

(* the slot the reverse-edge scan stops at: the first slot of next that
   holds cur; None when the scan finds no such slot *)
ReverseSlot(cs, next, cur) ==
    LET hits == {j \in DOMAIN cs[next].neighbors : cs[next].neighbors[j] = cur}
    IN  IF hits = {} THEN None
        ELSE CHOOSE j \in hits : \A k \in hits : j <= k

(* a variant that opens only the forward side of the edge *)
OpenWallsForwardOnly(cs, cur, next, edge_idx) ==
    [cs EXCEPT ![cur].walls[edge_idx] = FALSE]

(* a variant that takes the reverse slot to be the forward slot *)
OpenWallsSameSlot(cs, cur, next, edge_idx) ==
    [cs EXCEPT ![cur].walls[edge_idx] = FALSE,
               ![next].walls[edge_idx] = FALSE]

(* walls[edge_idx] of cur and walls[rev_idx] of next become false *)
OpenWalls(cs, cur, next, edge_idx) ==
    LET rev_idx == ReverseSlot(cs, next, cur)
        fwd == [cs EXCEPT ![cur].walls[edge_idx] = FALSE]
    IN  IF rev_idx = None THEN fwd
        ELSE [fwd EXCEPT ![next].walls[rev_idx] = FALSE]

(* a variant that backtracks without popping *)
GeneratePopKeepsTop ==
    /\ pc = "generate"
    /\ stack # << >>
    /\ Unvisited(cells, visited, Top(stack)) = {}
    /\ stack' = stack
    /\ UNCHANGED <<args, cells, visited, solve_locals, solution,
                   prev_solution, solves, files, svg, pc>>

(* ---- generate: one iteration that finds no unvisited neighbour ---- *)
GeneratePop ==
    /\ pc = "generate"
    /\ stack # << >>
    /\ Unvisited(cells, visited, Top(stack)) = {}
    /\ stack' = SubSeq(stack, 1, Len(stack) - 1)
    /\ UNCHANGED <<args, cells, visited, solve_locals, solution,
                   prev_solution, solves, files, svg, pc>>

(* a variant that puts next in the place of the top cell *)
GenerateCarveReplacesTop ==
    /\ pc = "generate"
    /\ stack # << >>
    /\ \E choice \in Unvisited(cells, visited, Top(stack)) :
          LET next == choice[1]
              edge_idx == choice[2]
          IN  /\ cells' = OpenWalls(cells, Top(stack), next, edge_idx)
              /\ visited' = [visited EXCEPT ![next] = TRUE]
              /\ stack' = Append(SubSeq(stack, 1, Len(stack) - 1), next)
    /\ UNCHANGED <<args, solve_locals, solution, prev_solution, solves,
                   files, svg, pc>>

(* a variant that forgets visited[next] = true *)
GenerateCarveNoMark ==
    /\ pc = "generate"
    /\ stack # << >>
    /\ \E choice \in Unvisited(cells, visited, Top(stack)) :
          LET next == choice[1]
              edge_idx == choice[2]
          IN  /\ cells' = OpenWalls(cells, Top(stack), next, edge_idx)
              /\ visited' = visited
              /\ stack' = Append(stack, next)
    /\ UNCHANGED <<args, solve_locals, solution, prev_solution, solves,
                   files, svg, pc>>

(* ---- generate: one iteration that carves to a random unvisited one ---- *)
GenerateCarve ==
    /\ pc = "generate"
    /\ stack # << >>
    /\ \E choice \in Unvisited(cells, visited, Top(stack)) :
          LET next == choice[1]
              edge_idx == choice[2]
          IN  /\ cells' = OpenWalls(cells, Top(stack), next, edge_idx)
              /\ visited' = [visited EXCEPT ![next] = TRUE]
              /\ stack' = Append(stack, next)
    /\ UNCHANGED <<args, solve_locals, solution, prev_solution, solves,
                   files, svg, pc>>

(* ---- generate: the stack is empty, the loop ends ---- *)
GenerateReturn ==
    /\ pc = "generate"
    /\ stack = << >>
    /\ pc' = "generated"
    /\ UNCHANGED <<args, cells, generate_locals, solve_locals, solution,
                   prev_solution, solves, files, svg>>

(* ---- solve: queue.push_back(0); visited[0] = true; parent = {} ---- *)
SolveStart ==
    /\ pc = "generated"
    /\ queue' = <<0>>
    /\ solve_visited' = [c \in Cells |-> c = 0]
    /\ parent' = [c \in Cells |-> None]
    /\ current' = None
    /\ path' = << >>
    /\ pc' = "bfs"
    /\ UNCHANGED <<args, cells, generate_locals, solution, prev_solution,
                   solves, files, svg>>

(* a variant that does not look at the wall flag *)
RECURSIVE ScanSlotsIgnoreWalls(_, _, _, _)
ScanSlotsIgnoreWalls(cs, cur, i, st) ==
    IF i \notin DOMAIN cs[cur].neighbors THEN st
    ELSE LET neighbor == cs[cur].neighbors[i]
         IN  IF /\ neighbor # None
                /\ ~st.visited[neighbor]
             THEN ScanSlotsIgnoreWalls(cs, cur, i + 1,
                     [visited |-> [st.visited EXCEPT ![neighbor] = TRUE],
                      parent  |-> [st.parent EXCEPT ![neighbor] = cur],
                      queue   |-> Append(st.queue, neighbor)])
             ELSE ScanSlotsIgnoreWalls(cs, cur, i + 1, st)

(* a variant that puts a discovered cell at the front of the queue *)
RECURSIVE ScanSlotsPushFront(_, _, _, _)
ScanSlotsPushFront(cs, cur, i, st) ==
    IF i \notin DOMAIN cs[cur].neighbors THEN st
    ELSE LET neighbor == cs[cur].neighbors[i]
         IN  IF /\ neighbor # None
                /\ ~cs[cur].walls[i]
                /\ ~st.visited[neighbor]
             THEN ScanSlotsPushFront(cs, cur, i + 1,
                     [visited |-> [st.visited EXCEPT ![neighbor] = TRUE],
                      parent  |-> [st.parent EXCEPT ![neighbor] = cur],
                      queue   |-> <<neighbor>> \o st.queue])
             ELSE ScanSlotsPushFront(cs, cur, i + 1, st)

(* the scan of cur's slots from slot i on, in slot order: an open slot to a
   cell not yet visited marks it, records its parent and enqueues it *)
RECURSIVE ScanSlots(_, _, _, _)
ScanSlots(cs, cur, i, st) ==
    IF i \notin DOMAIN cs[cur].neighbors THEN st
    ELSE LET neighbor == cs[cur].neighbors[i]
         IN  IF /\ neighbor # None
                /\ ~cs[cur].walls[i]
                /\ ~st.visited[neighbor]
             THEN ScanSlots(cs, cur, i + 1,
                     [visited |-> [st.visited EXCEPT ![neighbor] = TRUE],
                      parent  |-> [st.parent EXCEPT ![neighbor] = cur],
                      queue   |-> Append(st.queue, neighbor)])
             ELSE ScanSlots(cs, cur, i + 1, st)

(* a variant that closes the walls of the cell it expands, to mark it *)
SolveVisitMarksGrid ==
    /\ pc = "bfs"
    /\ queue # << >>
    /\ Head(queue) # EndCell
    /\ LET st == ScanSlots(cells, Head(queue), 0,
                           [visited |-> solve_visited,
                            parent  |-> parent,
                            queue   |-> Tail(queue)])
       IN  /\ queue' = st.queue
           /\ solve_visited' = st.visited
           /\ parent' = st.parent
    /\ cells' = [cells EXCEPT ![Head(queue)].walls =
                    [i \in DOMAIN cells[Head(queue)].walls |-> TRUE]]
    /\ UNCHANGED <<args, generate_locals, current, path, solution,
                   prev_solution, solves, files, svg, pc>>

(* ---- solve: one iteration of the search loop, current != end ---- *)
SolveVisit ==
    /\ pc = "bfs"
    /\ queue # << >>
    /\ Head(queue) # EndCell
    /\ LET st == ScanSlots(cells, Head(queue), 0,
                           [visited |-> solve_visited,
                            parent  |-> parent,
                            queue   |-> Tail(queue)])
       IN  /\ queue' = st.queue
           /\ solve_visited' = st.visited
           /\ parent' = st.parent
    /\ UNCHANGED <<args, cells, generate_locals, current, path, solution,
                   prev_solution, solves, files, svg, pc>>

(* a variant that forgets path.push(end) *)
SolveLoopEndEmptyPath ==
    /\ pc = "bfs"
    /\ \/ /\ queue # << >>
          /\ Head(queue) = EndCell
          /\ queue' = Tail(queue)
       \/ /\ queue = << >>
          /\ queue' = queue
    /\ current' = EndCell
    /\ path' = << >>
    /\ pc' = "reconstruct"
    /\ UNCHANGED <<args, cells, generate_locals, solve_visited, parent,
                   solution, prev_solution, solves, files, svg>>

(* ---- solve: the loop ends (end was dequeued, or the queue ran empty);
        path.push(end) ---- *)
SolveLoopEnd ==
    /\ pc = "bfs"
    /\ \/ /\ queue # << >>
          /\ Head(queue) = EndCell
          /\ queue' = Tail(queue)
       \/ /\ queue = << >>
          /\ queue' = queue
    /\ current' = EndCell
    /\ path' = <<EndCell>>
    /\ pc' = "reconstruct"
    /\ UNCHANGED <<args, cells, generate_locals, solve_visited, parent,
                   solution, prev_solution, solves, files, svg>>

(* a variant that takes cell 0 for a missing parent *)
SolveWalkDefaultsToStart ==
    /\ pc = "reconstruct"
    /\ current # 0
    /\ LET prev == IF parent[current] = None THEN 0 ELSE parent[current]
       IN  /\ path' = Append(path, prev)
           /\ current' = prev
    /\ UNCHANGED <<args, cells, generate_locals, queue, solve_visited,
                   parent, solution, prev_solution, solves, files, svg, pc>>

(* ---- solve: one step back along the parent links ---- *)
SolveWalk ==
    /\ pc = "reconstruct"
    /\ current # 0
    /\ parent[current] # None
    /\ path' = Append(path, parent[current])
    /\ current' = parent[current]
    /\ UNCHANGED <<args, cells, generate_locals, queue, solve_visited,
                   parent, solution, prev_solution, solves, files, svg, pc>>

(* path.reverse() *)
Reverse(s) == [i \in 1 .. Len(s) |-> s[Len(s) + 1 - i]]

(* ---- solve: the walk ends (at cell 0, or at a cell with no parent) ---- *)
SolveReturn ==
    /\ pc = "reconstruct"
    /\ (current = 0 \/ parent[current] = None)
    /\ solution' = Reverse(path)
    /\ prev_solution' = solution
    /\ solves' = solves + 1
    /\ pc' = "solved"
    /\ UNCHANGED <<args, cells, generate_locals, solve_locals, files, svg>>

(***************************************************************************)
(* to_svg, as far as the walls go: the set of slots of cell idx whose      *)
(* wall line is drawn.  n is maze.cells.len().  The line of a slot is the  *)
(* side of the cell that faces the slot's neighbour.                       *)
(***************************************************************************)

(* a variant that takes the east wall of cell 0 for the entrance *)
RectLinesEastEntrance(cs, n, idx) ==
    {i \in 0..3 :
        /\ cs[idx].walls[i]
        /\ CASE i = 0 -> idx # 0
             [] i = 1 -> idx # n - 1
             [] i = 2 -> idx # 0
             [] i = 3 -> TRUE}

(* ---- rect_shape.rs: entrance N and W of cell 0, exit S of the last ---- *)
RectLines(cs, n, idx) ==
    {i \in 0..3 :
        /\ cs[idx].walls[i]
        /\ CASE i = 0 -> idx # 0
             [] i = 1 -> idx # n - 1
             [] i = 2 -> TRUE
             [] i = 3 -> idx # 0}

(* ---- tri_shape.rs: entrance left of cell 0, exit right of the last ---- *)
TriLines(cs, n, idx, x, y) ==
    LET is_up == (x + y) % 2 = 0
    IN  {i \in 0..2 :
            /\ cs[idx].walls[i]
            /\ CASE i = 0 -> IF is_up THEN ~(idx = 0) ELSE TRUE
                 [] i = 1 -> ~(idx = n - 1)
                 [] i = 2 -> TRUE}

(* ---- hex_shape.rs: entrance NW of cell 0, exit SE of the last ---- *)
HexLines(cs, n, idx) ==
    {wall_idx \in 0..5 :
        /\ cs[idx].walls[wall_idx]
        /\ LET is_entrance == idx = 0 /\ wall_idx = 4
               is_exit == idx = n - 1 /\ wall_idx = 3
           IN  ~is_entrance /\ ~is_exit}

(* ---- oct_shape.rs: an octagon draws 8 sides (entrance NW of cell 0,
        exit SE of the last), a square 4 (N and W of cell 0, S of the
        last) ---- *)
OctLines(cs, n, idx, x, y) ==
    IF is_octagon(x, y)
    THEN {i \in 0..7 :
            /\ cs[idx].walls[i]
            /\ CASE i = 5 -> idx # n - 1
                 [] i = 6 -> idx # 0
                 [] OTHER -> TRUE}
    ELSE {i \in 0..3 :
            /\ cs[idx].walls[i]
            /\ CASE i = 0 -> idx # 0
                 [] i = 1 -> idx # n - 1
                 [] i = 2 -> TRUE
                 [] i = 3 -> idx # 0}

(* ---- Shape::to_svg: the wall lines of every cell ---- *)
to_svg(shape, cs, w, h) ==
    LET n == w * h
        lines(idx) ==
            LET x == cell_coords(idx, w)[1]
                y == cell_coords(idx, w)[2]
            IN  CASE shape = "Rectangular" -> RectLines(cs, n, idx)
                  [] shape = "Triangular"  -> TriLines(cs, n, idx, x, y)
                  [] shape = "Hexagonal"   -> HexLines(cs, n, idx)
                  [] shape = "Octagonal"   -> OctLines(cs, n, idx, x, y)
    IN  UNION {{<<idx, i>> : i \in lines(idx)} : idx \in DOMAIN cs}

(***************************************************************************)
(* to_svg, as far as the place of a wall line goes: the two end points of  *)
(* the line of slot i, relative to the middle of the cell.  Only the side  *)
(* of the cell the line lies on is used, so lengths are in units that keep *)
(* the numbers whole.                                                      *)
(***************************************************************************)

(* ---- rect_shape.rs: the corners (cell_x, cell_y) .. (+cell_size,
        +cell_size), in units of cell_size / 2 ---- *)
RectLineEnds(i) ==
    CASE i = 0 -> <<(<<-1, -1>>), (<<1, -1>>)>>
      [] i = 1 -> <<(<<-1, 1>>), (<<1, 1>>)>>
      [] i = 2 -> <<(<<1, -1>>), (<<1, 1>>)>>
      [] i = 3 -> <<(<<-1, -1>>), (<<-1, 1>>)>>

(* ---- tri_shape.rs: (x1,y1), (x2,y2), (x3,y3), in units of
        tunnel_width / 2 and tri_height / 2 ---- *)
TriLineEnds(is_up, i) ==
    LET p1 == IF is_up THEN <<-1, 1>> ELSE <<-1, -1>>
        p2 == IF is_up THEN <<0, -1>> ELSE <<0, 1>>
        p3 == IF is_up THEN <<1, 1>>  ELSE <<1, -1>>
    IN  CASE i = 0 -> <<p1, p2>>
          [] i = 1 -> <<p2, p3>>
          [] i = 2 -> <<p1, p3>>

(* ---- hex_shape.rs: points and edges, in units of w / 2 and h ---- *)
HexLineEnds(i) ==
    LET points == [p \in 0..5 |->
                     CASE p = 0 -> <<-1, -1>>
                       [] p = 1 -> <<1, -1>>
                       [] p = 2 -> <<2, 0>>
                       [] p = 3 -> <<1, 1>>
                       [] p = 4 -> <<-1, 1>>
                       [] p = 5 -> <<-2, 0>>]
        edges == [e \in 0..5 |->
                     CASE e = 0 -> <<0, 1>>
                       [] e = 1 -> <<4, 3>>
                       [] e = 2 -> <<1, 2>>
                       [] e = 3 -> <<2, 3>>
                       [] e = 4 -> <<5, 0>>
                       [] e = 5 -> <<4, 5>>]
    IN  <<points[edges[i][1]], points[edges[i][2]]>>

(* ---- oct_shape.rs: points of an octagon and of a square, in units of
        half_edge; radius, which is longer than half_edge, is written 2 ---- *)
OctLineEnds(octagon, i) ==
    IF octagon
    THEN LET points == [p \in 0..7 |->
                          CASE p = 0 -> <<-1, -2>>
                            [] p = 1 -> <<1, -2>>
                            [] p = 2 -> <<2, -1>>
                            [] p = 3 -> <<2, 1>>
                            [] p = 4 -> <<1, 2>>
                            [] p = 5 -> <<-1, 2>>
                            [] p = 6 -> <<-2, 1>>
                            [] p = 7 -> <<-2, -1>>]
         IN  CASE i = 0 -> <<points[0], points[1]>>
               [] i = 1 -> <<points[4], points[5]>>
               [] i = 2 -> <<points[2], points[3]>>
               [] i = 3 -> <<points[6], points[7]>>
               [] i = 4 -> <<points[1], points[2]>>
               [] i = 5 -> <<points[3], points[4]>>
               [] i = 6 -> <<points[7], points[0]>>
               [] i = 7 -> <<points[5], points[6]>>
    ELSE LET points == [p \in 0..3 |->
                          CASE p = 0 -> <<-1, -1>>
                            [] p = 1 -> <<1, -1>>
                            [] p = 2 -> <<1, 1>>
                            [] p = 3 -> <<-1, 1>>]
         IN  CASE i = 0 -> <<points[0], points[1]>>
               [] i = 1 -> <<points[2], points[3]>>
               [] i = 2 -> <<points[1], points[2]>>
               [] i = 3 -> <<points[0], points[3]>>

(* the end points of the line of slot i of the cell at (x, y) *)
LineEnds(shape, x, y, i) ==
    CASE shape = "Rectangular" -> RectLineEnds(i)
      [] shape = "Triangular"  -> TriLineEnds((x + y) % 2 = 0, i)
      [] shape = "Hexagonal"   -> HexLineEnds(i)
      [] shape = "Octagonal"   -> OctLineEnds(is_octagon(x, y), i)

(* ---- where the cell at (x, y) is drawn: cell_x, cell_y (rect), base_x,
        base_y (tri), hex_center (hex: an odd column is half a cell lower;
        the second coordinate counts half cells), get_center (oct) ---- *)
CellPlace(shape, x, y) ==
    CASE shape = "Hexagonal" -> <<x, 2 * y + (IF x % 2 = 1 THEN 1 ELSE 0)>>
      [] OTHER               -> <<x, 2 * y>>

(* ---- process_maze: to_svg twice, then write_output ---- *)
WriteOutput ==
    /\ \/ pc = "solved"
       \/ pc = "built" /\ all_walls
    /\ svg' = to_svg(grid_type, cells, width, height)
    /\ files' = {"main", "solution"}
    /\ pc' = "done"
    /\ UNCHANGED <<args, cells, generate_locals, solve_locals, solution,
                   prev_solution, solves>>

Next ==
    \/ MainReject
    \/ Build
    \/ GenerateStart
    \/ GeneratePop
    \/ GenerateCarve
    \/ GenerateReturn
    \/ SolveStart
    \/ SolveVisit
    \/ SolveLoopEnd
    \/ SolveWalk
    \/ SolveReturn
    \/ WriteOutput

Spec == Init /\ [][Next]_vars

(* ---- the driver runs to completion: no step is postponed forever ---- *)
FairSpec == Spec /\ WF_vars(Next)

(***************************************************************************)
(* solve as a function of the grid: every grid of every topology, with     *)
(* any set of wall-pairs open, and solve called on it MaxSolves times.     *)
(***************************************************************************)

(* the undirected edges of the neighbour relation *)
Edges(cs) ==
    {{c, cs[c].neighbors[i]} : <<c, i>> \in
        {ci \in (DOMAIN cs) \X (0..7) :
            /\ ci[2] \in DOMAIN cs[ci[1]].neighbors
            /\ cs[ci[1]].neighbors[ci[2]] # None}}

(* cs with exactly the wall-pairs of open opened, on both sides *)
WithOpen(cs, open) ==
    [c \in DOMAIN cs |->
        [cs[c] EXCEPT !.walls =
            [i \in DOMAIN cs[c].walls |->
                ~(/\ cs[c].neighbors[i] # None
                  /\ {c, cs[c].neighbors[i]} \in open)]]]

InitSolve ==
    /\ grid_type \in GridTypes
    /\ width \in 1 .. MaxW
    /\ height \in 1 .. MaxH
    /\ width * height <= MaxSolveCells
    /\ all_walls = FALSE
    /\ \E open \in SUBSET Edges(GenericMazeNew(grid_type, width, height)) :
          cells = WithOpen(GenericMazeNew(grid_type, width, height), open)
    /\ visited = NoCells
    /\ stack = << >>
    /\ queue = << >>
    /\ solve_visited = NoCells
    /\ parent = NoCells
    /\ current = None
    /\ path = << >>
    /\ solution = << >>
    /\ prev_solution = << >>
    /\ solves = 0
    /\ files = {}
    /\ svg = {}
    /\ pc = "generated"

(* the caller calls solve once more on the same grid *)
SolveAgain ==
    /\ pc = "solved"
    /\ solves < MaxSolves
    /\ pc' = "generated"
    /\ UNCHANGED <<args, cells, generate_locals, solve_locals, solution,
                   prev_solution, solves, files, svg>>

NextSolve ==
    \/ SolveStart
    \/ SolveVisit
    \/ SolveLoopEnd
    \/ SolveWalk
    \/ SolveReturn
    \/ SolveAgain

SpecSolve == InitSolve /\ [][NextSolve]_vars

(***************************************************************************)
(* process_maze as the test of main.rs calls it for the rectangular        *)
(* topology: width 5, height 5, all_walls false.                           *)
(***************************************************************************)

InitTest5x5 ==
    /\ grid_type = "Rectangular"
    /\ width = 5
    /\ height = 5
    /\ all_walls = FALSE
    /\ cells = NoCells
    /\ visited = NoCells
    /\ stack = << >>
    /\ queue = << >>
    /\ solve_visited = NoCells
    /\ parent = NoCells
    /\ current = None
    /\ path = << >>
    /\ solution = << >>
    /\ prev_solution = << >>
    /\ solves = 0
    /\ files = {}
    /\ svg = {}
    /\ pc = "main"

(* process_maze: new, generate, solve, to_svg, write_output *)
ProcessMaze ==
    \/ Build
    \/ GenerateStart
    \/ GeneratePop
    \/ GenerateCarve
    \/ GenerateReturn
    \/ SolveStart
    \/ SolveVisit
    \/ SolveLoopEnd
    \/ SolveWalk
    \/ SolveReturn
    \/ WriteOutput

SpecTest5x5 == InitTest5x5 /\ [][ProcessMaze]_vars

(***************************************************************************)
(* Graph notions the properties are stated in.                             *)
(***************************************************************************)

(* the cells in the populated slots of c *)
AllNeighbors(cs, c) ==
    {cs[c].neighbors[i] : i \in
        {j \in DOMAIN cs[c].neighbors : cs[c].neighbors[j] # None}}

(* the cells in the populated slots of c whose wall flag is false *)
OpenNeighbors(cs, c) ==
    {cs[c].neighbors[i] : i \in
        {j \in DOMAIN cs[c].neighbors :
            cs[c].neighbors[j] # None /\ ~cs[c].walls[j]}}

NbrAdj(cs) == [c \in DOMAIN cs |-> AllNeighbors(cs, c)]
OpenAdj(cs) == [c \in DOMAIN cs |-> OpenNeighbors(cs, c)]

(* the cells reachable from the cells of seen along adj *)
RECURSIVE ReachFrom(_, _)
ReachFrom(adj, seen) ==
    LET nxt == seen \cup UNION {adj[c] : c \in seen}
    IN  IF nxt = seen THEN seen ELSE ReachFrom(adj, nxt)

Reach(adj, start) == ReachFrom(adj, {start})

(* the undirected wall-pairs that are open (on either side) *)
OpenPairs(cs) == UNION {{{c, n} : n \in OpenNeighbors(cs, c)} : c \in DOMAIN cs}

(* adj without the edge e *)
Without(adj, e) == [c \in DOMAIN adj |-> IF c \in e THEN adj[c] \ e ELSE adj[c]]

(* no cycle among the open wall-pairs: every open pair is a bridge *)
Acyclic(cs) ==
    \A e \in OpenPairs(cs) :
        \A a \in e : \A b \in e \ {a} :
            b \notin Reach(Without(OpenAdj(cs), e), a)

(* the number of edges of a shortest path along adj from the cells of
   frontier (at distance d) to target; None when there is none *)
RECURSIVE DistFrom(_, _, _, _, _)
DistFrom(adj, seen, frontier, target, d) ==
    IF target \in frontier THEN d
    ELSE IF frontier = {} THEN None
    ELSE LET nxt == (UNION {adj[c] : c \in frontier}) \ seen
         IN  DistFrom(adj, seen \cup nxt, nxt, target, d + 1)

Dist(adj, from, to) == DistFrom(adj, {from}, {from}, to, 0)

(* a and b are joined by an open slot of a *)
OpenStep(cs, a, b) ==
    \E i \in DOMAIN cs[a].neighbors :
        cs[a].neighbors[i] = b /\ ~cs[a].walls[i]

VisitedSet == {c \in DOMAIN visited : visited[c]}

Connected(cs) == Reach(NbrAdj(cs), 0) = DOMAIN cs

(***************************************************************************)
(* Properties.                                                             *)
(***************************************************************************)

(* C1: in every topology and for every width, height >= 1, after generate
   every cell is reachable from cell 0 through open walls and exactly N-1
   wall-pairs are open (the open walls span all N cells). *)
C1_SpansAllCells ==
    pc = "generated" =>
        /\ Reach(OpenAdj(cells), 0) = Cells
        /\ Cardinality(OpenPairs(cells)) = NumCells - 1

(* C2: after generate the number of open wall-pairs is one less than the
   number of cells of cell 0's component of the neighbour graph, no cycle
   is open, and the cells reachable from cell 0 through open walls are the
   generator's visited set, which is that component. *)
C2_SpanningTreeOfComponent ==
    pc = "generated" =>
        /\ Cardinality(OpenPairs(cells))
              = Cardinality(Reach(NbrAdj(cells), 0)) - 1
        /\ Acyclic(cells)
        /\ Reach(OpenAdj(cells), 0) = VisitedSet
        /\ VisitedSet = Reach(NbrAdj(cells), 0)

C2_Witness ==
    /\ pc = "generated"
    /\ Cardinality(OpenPairs(cells)) >= 5
    /\ \E c \in Cells : Cardinality(OpenNeighbors(cells, c)) >= 3

(* C3: after build the neighbour relation is symmetric: a cell n in a slot
   of c has c in one of its own slots. *)
C3_NeighborsSymmetric ==
    pc \notin {"main", "exit1"} =>
        \A c \in Cells : \A n \in AllNeighbors(cells, c) :
            c \in AllNeighbors(cells, n)

C3_Witness ==
    /\ pc = "built"
    /\ grid_type = "Hexagonal"
    /\ width >= 3
    /\ height >= 2

(* C4: immediately after build every cell has K neighbour slots and K wall
   flags, K being 4, 3, 6, 8 for the four topologies, and every wall flag
   is true. *)
C4_BuiltCells ==
    pc = "built" =>
        LET k == CASE grid_type = "Rectangular" -> 4
                   [] grid_type = "Triangular"  -> 3
                   [] grid_type = "Hexagonal"   -> 6
                   [] grid_type = "Octagonal"   -> 8
        IN  /\ DOMAIN cells = 0 .. (width * height - 1)
            /\ \A c \in DOMAIN cells :
                  /\ DOMAIN cells[c].neighbors = 0 .. (k - 1)
                  /\ DOMAIN cells[c].walls = 0 .. (k - 1)
                  /\ \A i \in 0 .. (k - 1) : cells[c].walls[i] = TRUE

C4_Witness ==
    /\ pc = "built"
    /\ grid_type = "Octagonal"
    /\ NumCells >= 6

(* C5: after generate on a grid whose neighbour graph is connected, solve
   returns a sequence from cell 0 to cell N-1 in which each cell is in an
   open slot of the one before it. *)
C5_SolutionIsOpenPath ==
    (pc = "solved" /\ Connected(cells)) =>
        /\ Len(solution) >= 1
        /\ solution[1] = 0
        /\ solution[Len(solution)] = NumCells - 1
        /\ \A k \in 1 .. (Len(solution) - 1) :
              OpenStep(cells, solution[k], solution[k + 1])

C5_Witness ==
    /\ pc = "solved"
    /\ Connected(cells)
    /\ Len(solution) >= 5
    /\ solution[1] = 0

(* C8: at the end of every iteration of the generator loop, and after
   generate, the wall flag of a slot of c holding n equals the wall flag of
   every slot of n holding c. *)
C8_WallsPaired ==
    pc \notin {"main", "exit1"} =>
        \A c \in Cells : \A i \in DOMAIN cells[c].neighbors :
            cells[c].neighbors[i] # None =>
                \A j \in DOMAIN cells[cells[c].neighbors[i]].neighbors :
                    cells[cells[c].neighbors[i]].neighbors[j] = c =>
                        cells[c].walls[i]
                            = cells[cells[c].neighbors[i]].walls[j]

(* an edge opened on both sides whose two slots have different indices *)
C8_Witness ==
    /\ pc = "generate"
    /\ \E c \in Cells : \E i \in DOMAIN cells[c].neighbors :
          /\ cells[c].neighbors[i] # None
          /\ ~cells[c].walls[i]
          /\ ReverseSlot(cells, cells[c].neighbors[i], c) # i
          /\ ~cells[cells[c].neighbors[i]].walls[
                 ReverseSlot(cells, cells[c].neighbors[i], c)]

(* C6: for any wall state in which cell N-1 is reachable from cell 0
   through open walls, cycles included, the sequence solve returns is an
   open-wall path from 0 to N-1 with as few edges as any. *)
C6_SolutionIsShortest ==
    (pc = "solved" /\ Dist(OpenAdj(cells), 0, EndCell) # None) =>
        /\ Len(solution) - 1 = Dist(OpenAdj(cells), 0, EndCell)
        /\ solution[1] = 0
        /\ solution[Len(solution)] = EndCell
        /\ \A k \in 1 .. (Len(solution) - 1) :
              OpenStep(cells, solution[k], solution[k + 1])

(* a grid with an open cycle and a shortest path of three or more edges *)
C6_Witness ==
    /\ pc = "solved"
    /\ ~Acyclic(cells)
    /\ Dist(OpenAdj(cells), 0, EndCell) # None
    /\ Dist(OpenAdj(cells), 0, EndCell) >= 3
    /\ Len(solution) = Dist(OpenAdj(cells), 0, EndCell) + 1

(* C7: with N > 1 and no open-wall path from cell 0 to cell N-1, solve
   returns the one-element sequence of cell N-1. *)
C7_NoPathReturnsEndAlone ==
    (/\ pc = "solved"
     /\ NumCells > 1
     /\ EndCell \notin Reach(OpenAdj(cells), 0)) =>
        solution = <<EndCell>>

(* no path, though the search from cell 0 and the cell N-1 both have open
   walls around them *)
C7_Witness ==
    /\ pc = "solved"
    /\ NumCells > 1
    /\ EndCell \notin Reach(OpenAdj(cells), 0)
    /\ Cardinality(Reach(OpenAdj(cells), 0)) >= 3
    /\ OpenNeighbors(cells, EndCell) # {}
    /\ solution = <<EndCell>>

(* C9: generate terminates whatever is chosen, the solve after it
   terminates, and process_maze without all_walls gets to write both
   files. *)
C9_RunsToCompletion ==
    /\ (pc = "generate") ~> (pc = "generated")
    /\ (pc = "generated") ~> (pc = "solved")
    /\ (pc = "built" /\ ~all_walls) ~> (pc = "done" /\ files = {"main", "solution"})

C9_Witness ==
    /\ pc = "done"
    /\ ~all_walls
    /\ NumCells >= 9
    /\ Len(solution) >= 5
    /\ files = {"main", "solution"}

(* C10: solve leaves the grid as it is, and a second call on the same
   grid returns the sequence the first call returned. *)
C10_SolveRepeats ==
    /\ [][cells' = cells]_vars
    /\ [](pc = "solved" /\ solves >= 2 => solution = prev_solution)

C10_Witness ==
    /\ pc = "solved"
    /\ solves >= 2
    /\ Len(solution) >= 4
    /\ solution = prev_solution

(* C11: with width = 1 and height = 1, in every topology, generate opens
   no wall (every wall flag of cell 0 is still true) and solve returns
   the one-element sequence of cell 0. *)
C11_SingleCell ==
    (width = 1 /\ height = 1) =>
        /\ pc \in {"generated", "bfs", "reconstruct", "solved"} =>
              \A i \in DOMAIN cells[0].walls : cells[0].walls[i] = TRUE
        /\ pc = "solved" => solution = <<0>>

C11_Witness ==
    /\ width = 1
    /\ height = 1
    /\ grid_type = "Octagonal"
    /\ pc = "solved"
    /\ solution = <<0>>

(* C12: in the square topology with width = 2 and height = 1, whatever is
   chosen, after generate the open wall flags are slot E of cell 0 and
   slot W of cell 1 and no other, and solve returns cell 0 then cell 1. *)
C12_TwoCells ==
    (grid_type = "Rectangular" /\ width = 2 /\ height = 1) =>
        /\ pc \in {"generated", "bfs", "reconstruct", "solved"} =>
              /\ \A i \in 0..3 : cells[0].walls[i] = (i # 2)
              /\ \A i \in 0..3 : cells[1].walls[i] = (i # 3)
              /\ OpenPairs(cells) = {{0, 1}}
        /\ pc = "solved" => solution = <<0, 1>>

C12_Witness ==
    /\ grid_type = "Rectangular"
    /\ width = 2
    /\ height = 1
    /\ pc = "solved"
    /\ ~cells[0].walls[2]
    /\ ~cells[1].walls[3]

(* the populated slots of cell c *)
PopulatedSlots(cs, c) ==
    {i \in DOMAIN cs[c].neighbors : cs[c].neighbors[i] # None}

(* the coordinates of cell c *)
XOf(c) == c % width
YOf(c) == c \div width

(* C13, as stated: in the octagon+square topology with width = 3 and
   height = 3, cell 0 and cell 8 are octagons and build gives each of them
   exactly 4 populated neighbour slots. *)
C13_CornersHaveFour ==
    (/\ pc \notin {"main", "exit1"}
     /\ grid_type = "Octagonal" /\ width = 3 /\ height = 3) =>
        /\ (XOf(0) + YOf(0)) % 2 = 0
        /\ (XOf(8) + YOf(8)) % 2 = 0
        /\ Cardinality(PopulatedSlots(cells, 0)) = 4
        /\ Cardinality(PopulatedSlots(cells, 8)) = 4

(* C13, amended: in the octagon+square topology with width = 3 and
   height = 3, cell 0 and cell 8 are octagons and build gives each of them
   exactly 3 populated neighbour slots: S, E, SE of cell 0 hold cells 3, 1,
   4, and N, W, NW of cell 8 hold cells 5, 7, 4. *)
C13_CornersHaveThree ==
    (/\ pc \notin {"main", "exit1"}
     /\ grid_type = "Octagonal" /\ width = 3 /\ height = 3) =>
        /\ (XOf(0) + YOf(0)) % 2 = 0
        /\ (XOf(8) + YOf(8)) % 2 = 0
        /\ PopulatedSlots(cells, 0) = {1, 2, 5}
        /\ cells[0].neighbors[1] = 3
        /\ cells[0].neighbors[2] = 1
        /\ cells[0].neighbors[5] = 4
        /\ PopulatedSlots(cells, 8) = {0, 3, 6}
        /\ cells[8].neighbors[0] = 5
        /\ cells[8].neighbors[3] = 7
        /\ cells[8].neighbors[6] = 4

C13_Witness ==
    /\ pc = "built"
    /\ grid_type = "Octagonal"
    /\ width = 3
    /\ height = 3
    /\ Cardinality(PopulatedSlots(cells, 0)) = 3
    /\ Cardinality(PopulatedSlots(cells, 8)) = 3

Built == pc \notin {"main", "exit1"}

(* the index of the cell at (x, y), None when (x, y) is outside the grid *)
CellAt(x, y) ==
    IF x >= 0 /\ x < width /\ y >= 0 /\ y < height THEN y * width + x ELSE None

(* C14: in the triangle topology every cell has 3 slots; slot 0 holds
   (x-1, y) and slot 1 holds (x+1, y) when that cell is in the grid; slot 2
   of an up cell ((x+y) even) holds (x, y+1) and slot 2 of a down cell
   holds (x, y-1) when that cell is in the grid; a slot is absent
   otherwise. *)
C14_TriangleSlots ==
    (Built /\ grid_type = "Triangular") =>
        \A c \in Cells :
            /\ DOMAIN cells[c].neighbors = 0..2
            /\ cells[c].neighbors[0] = CellAt(XOf(c) - 1, YOf(c))
            /\ cells[c].neighbors[1] = CellAt(XOf(c) + 1, YOf(c))
            /\ cells[c].neighbors[2] =
                  IF (XOf(c) + YOf(c)) % 2 = 0
                  THEN CellAt(XOf(c), YOf(c) + 1)
                  ELSE CellAt(XOf(c), YOf(c) - 1)

(* a grid with up and down cells in the interior and on every border *)
C14_Witness ==
    /\ pc = "built"
    /\ grid_type = "Triangular"
    /\ width >= 3
    /\ height >= 3
    /\ \E c \in Cells : PopulatedSlots(cells, c) = {0, 1, 2}
    /\ \E c \in Cells : (XOf(c) + YOf(c)) % 2 = 1 /\ cells[c].neighbors[2] = None

(* C17: in the square topology every cell has 4 slots; slots N, S, E, W of
   (x, y) hold (x, y-1), (x, y+1), (x+1, y), (x-1, y), and a slot is absent
   exactly when that coordinate is outside the grid. *)
C17_SquareSlots ==
    (Built /\ grid_type = "Rectangular") =>
        \A c \in Cells :
            /\ DOMAIN cells[c].neighbors = 0..3
            /\ cells[c].neighbors[0] = CellAt(XOf(c), YOf(c) - 1)
            /\ cells[c].neighbors[1] = CellAt(XOf(c), YOf(c) + 1)
            /\ cells[c].neighbors[2] = CellAt(XOf(c) + 1, YOf(c))
            /\ cells[c].neighbors[3] = CellAt(XOf(c) - 1, YOf(c))

C17_Witness ==
    /\ pc = "built"
    /\ grid_type = "Rectangular"
    /\ width >= 3
    /\ height >= 3
    /\ \E c \in Cells : PopulatedSlots(cells, c) = {0, 1, 2, 3}
    /\ PopulatedSlots(cells, 0) = {1, 2}

(* whether cell c is an octagon, by the parity of its coordinates *)
EvenParity(c) == (XOf(c) + YOf(c)) % 2 = 0

(* C16: in the octagon+square topology a cell is an octagon iff x+y is
   even; slots 0-3 of an octagon hold only squares and its slots 4-7 only
   octagons; slots 0-3 of a square hold only octagons and its slots 4-7
   are absent. *)
C16_OctagonSquareSlots ==
    (Built /\ grid_type = "Octagonal") =>
        \A c \in Cells :
            /\ is_octagon(XOf(c), YOf(c)) <=> EvenParity(c)
            /\ DOMAIN cells[c].neighbors = 0..7
            /\ \A i \in 0..3 :
                  cells[c].neighbors[i] # None =>
                      EvenParity(cells[c].neighbors[i]) # EvenParity(c)
            /\ \A i \in 4..7 :
                  IF EvenParity(c)
                  THEN cells[c].neighbors[i] # None =>
                          EvenParity(cells[c].neighbors[i])
                  ELSE cells[c].neighbors[i] = None

(* an interior octagon with all 8 slots populated beside an interior
   square with 4 *)
C16_Witness ==
    /\ pc = "built"
    /\ grid_type = "Octagonal"
    /\ \E c \in Cells : EvenParity(c) /\ PopulatedSlots(cells, c) = 0..7
    /\ \E c \in Cells : ~EvenParity(c) /\ PopulatedSlots(cells, c) = 0..3

(* C15, as stated: in the hexagon topology N and S of (x, y) hold
   (x, y-1) and (x, y+1); for odd x, NE holds (x+1, y) and SE holds
   (x+1, y-1), the cell to the right in the row above; a slot is absent
   exactly when that cell is outside the grid.  (The even columns, which
   the claim gives only as the flip of the odd ones, are left open.) *)
C15_HexSlotsAsStated ==
    (Built /\ grid_type = "Hexagonal") =>
        \A c \in Cells :
            /\ cells[c].neighbors[0] = CellAt(XOf(c), YOf(c) - 1)
            /\ cells[c].neighbors[1] = CellAt(XOf(c), YOf(c) + 1)
            /\ XOf(c) % 2 = 1 =>
                  /\ cells[c].neighbors[2] = CellAt(XOf(c) + 1, YOf(c))
                  /\ cells[c].neighbors[3] = CellAt(XOf(c) + 1, YOf(c) - 1)

(* C15, amended: in the hexagon topology every cell has 6 slots; N and S
   of (x, y) hold (x, y-1) and (x, y+1); for odd x, NE, SE, NW, SW hold
   (x+1, y), (x+1, y+1), (x-1, y), (x-1, y+1): the same row and the row
   below; for even x they hold (x+1, y-1), (x+1, y), (x-1, y-1), (x-1, y):
   the row above and the same row; a slot is absent exactly when that cell
   is outside the grid. *)
C15_HexSlots ==
    (Built /\ grid_type = "Hexagonal") =>
        \A c \in Cells :
            /\ DOMAIN cells[c].neighbors = 0..5
            /\ cells[c].neighbors[0] = CellAt(XOf(c), YOf(c) - 1)
            /\ cells[c].neighbors[1] = CellAt(XOf(c), YOf(c) + 1)
            /\ XOf(c) % 2 = 1 =>
                  /\ cells[c].neighbors[2] = CellAt(XOf(c) + 1, YOf(c))
                  /\ cells[c].neighbors[3] = CellAt(XOf(c) + 1, YOf(c) + 1)
                  /\ cells[c].neighbors[4] = CellAt(XOf(c) - 1, YOf(c))
                  /\ cells[c].neighbors[5] = CellAt(XOf(c) - 1, YOf(c) + 1)
            /\ XOf(c) % 2 = 0 =>
                  /\ cells[c].neighbors[2] = CellAt(XOf(c) + 1, YOf(c) - 1)
                  /\ cells[c].neighbors[3] = CellAt(XOf(c) + 1, YOf(c))
                  /\ cells[c].neighbors[4] = CellAt(XOf(c) - 1, YOf(c) - 1)
                  /\ cells[c].neighbors[5] = CellAt(XOf(c) - 1, YOf(c))

(* an odd-column cell and an even-column cell with all 6 slots populated *)
C15_Witness ==
    /\ pc = "built"
    /\ grid_type = "Hexagonal"
    /\ \E c \in Cells : XOf(c) % 2 = 1 /\ PopulatedSlots(cells, c) = 0..5
    /\ \E c \in Cells : XOf(c) % 2 = 0 /\ PopulatedSlots(cells, c) = 0..5

(* C18: the neighbour relation build produces is a simple graph: no cell
   is in a slot of its own, and no cell is in two slots of the same
   cell. *)
C18_SimpleGraph ==
    Built =>
        \A c \in Cells :
            /\ \A i \in DOMAIN cells[c].neighbors : cells[c].neighbors[i] # c
            /\ \A i, j \in PopulatedSlots(cells, c) :
                  i # j => cells[c].neighbors[i] # cells[c].neighbors[j]

(* a triangle grid with a cell whose three slots are all populated *)
C18_Witness ==
    /\ pc = "built"
    /\ grid_type = "Triangular"
    /\ width >= 3
    /\ height >= 2
    /\ \E c \in Cells : PopulatedSlots(cells, c) = {0, 1, 2}

(* the sides a cell has: one per slot of its shape; a square cell of the
   octagon+square topology has the four sides N, S, E, W *)
Sides(c) ==
    CASE grid_type = "Rectangular" -> 0..3
      [] grid_type = "Triangular"  -> 0..2
      [] grid_type = "Hexagonal"   -> 0..5
      [] grid_type = "Octagonal"   -> IF EvenParity(c) THEN 0..7 ELSE 0..3

(* the wall segments left out of the drawing although their flag is true *)
Suppressed ==
    {ci \in Cells \X (0..7) :
        /\ ci[2] \in Sides(ci[1])
        /\ cells[ci[1]].walls[ci[2]]
        /\ ci \notin svg}

(* C19: once the maze is rendered, every wall segment with a true flag
   that is not drawn is on cell 0 or cell N-1 and its slot has no
   neighbour, so no wall between two cells is hidden and every other wall
   is drawn; at least one such segment of cell 0 and one of cell N-1 is
   left out.  A wall segment is a side of the cell's shape: a square cell
   of the octagon+square topology has four, slots 0-3. *)
C19_SuppressedWallsFaceOutside ==
    pc = "done" =>
        /\ \A ci \in Suppressed :
              /\ ci[1] \in {0, EndCell}
              /\ cells[ci[1]].neighbors[ci[2]] = None
        /\ \E ci \in Suppressed : ci[1] = 0
        /\ \E ci \in Suppressed : ci[1] = EndCell

(* a generated octagon+square maze whose last cell is a square is
   rendered, the south side of that square is left out, and a carved
   wall of cell 0 is open *)
C19_Witness ==
    /\ pc = "done"
    /\ ~all_walls
    /\ grid_type = "Octagonal"
    /\ NumCells >= 6
    /\ ~EvenParity(EndCell)
    /\ <<EndCell, 1>> \in Suppressed
    /\ <<0, 6>> \in Suppressed
    /\ \E i \in 0..7 : ~cells[0].walls[i]

(* C20: with width = 0 or height = 0 main exits with status 1 before any
   grid is constructed and writes no file; build, generate, solve and the
   rendering only ever run with width >= 1 and height >= 1. *)
C20_ZeroSizeRejected ==
    /\ (width = 0 \/ height = 0) =>
          /\ pc \in {"main", "exit1"}
          /\ cells = NoCells
          /\ stack = << >>
          /\ solution = << >>
          /\ files = {}
    /\ pc \notin {"main", "exit1"} => (width >= 1 /\ height >= 1)
    /\ pc = "exit1" => (width = 0 \/ height = 0)

C20_Witness ==
    /\ pc = "exit1"
    /\ width >= 1
    /\ height = 0
    /\ cells = NoCells
    /\ files = {}

(* C21: on the 5 x 5 grid of the square topology, whatever generate
   chooses, the path solve returns has between 8 and 24 edges. *)
C21_FiveByFivePathLength ==
    pc = "solved" =>
        /\ Len(solution) - 1 >= 8
        /\ Len(solution) - 1 <= 24

(* a generated 5 x 5 maze whose solution passes through all 25 cells *)
C21_Witness ==
    /\ pc = "solved"
    /\ grid_type = "Rectangular"
    /\ NumCells = 25
    /\ Len(solution) - 1 = 24
    /\ solution[1] = 0
    /\ solution[25] = 24

(* the stack holds pairwise distinct cells, each of them visited *)
StackDistinctVisited ==
    /\ \A i \in 1 .. Len(stack) : \A j \in 1 .. Len(stack) :
          i # j => stack[i] # stack[j]
    /\ \A i \in 1 .. Len(stack) : visited[stack[i]]

(* a step that makes the stack longer pushes one cell, which was not
   visited before the step and is visited after it *)
PushOfUnvisited ==
    Len(stack') > Len(stack) =>
        /\ stack' = Append(stack, Top(stack'))
        /\ visited'[Top(stack')]
        /\ pc = "generate" => ~visited[Top(stack')]

(* during generate no cell loses its visited mark *)
VisitedKept ==
    pc = "generate" =>
        \A c \in Cells : visited[c] => visited'[c]

(* C22: during generate the stack always holds pairwise distinct, visited
   cells; every push is of a cell that was unvisited until that step and
   stays visited from then on, so no cell is pushed twice; when generate
   returns the stack is empty and the visited cells are exactly the cells
   reachable from cell 0 in the neighbour graph. *)
C22_VisitedBeforePush ==
    /\ [](pc = "generate" => StackDistinctVisited)
    /\ [][PushOfUnvisited /\ VisitedKept]_vars
    /\ [](pc = "generated" =>
            /\ stack = << >>
            /\ VisitedSet = Reach(NbrAdj(cells), 0))

(* generate has backtracked: visited cells that are no longer on the stack,
   while the top cell still has an unvisited neighbour to push *)
C22_Witness ==
    /\ pc = "generate"
    /\ Len(stack) >= 3
    /\ Cardinality(VisitedSet) >= Len(stack) + 2
    /\ Unvisited(cells, visited, Top(stack)) # {}

(* a step of generate leaves the arguments, the cells and their neighbour
   slots as they are, and changes a wall flag only from true to false and
   only in a populated slot *)
GenerateStepFrame ==
    pc \in {"built", "generate"} =>
        /\ grid_type' = grid_type
        /\ width' = width
        /\ height' = height
        /\ DOMAIN cells' = DOMAIN cells
        /\ \A c \in DOMAIN cells :
              /\ cells'[c].neighbors = cells[c].neighbors
              /\ DOMAIN cells'[c].walls = DOMAIN cells[c].walls
              /\ \A i \in DOMAIN cells[c].walls :
                    cells'[c].walls[i] # cells[c].walls[i] =>
                        /\ cells[c].walls[i]
                        /\ ~cells'[c].walls[i]
                        /\ cells[c].neighbors[i] # None

(* once the grid is built no step closes a wall *)
WallNeverCloses ==
    pc \notin {"main", "exit1"} =>
        \A c \in DOMAIN cells : \A i \in DOMAIN cells[c].walls :
            ~cells[c].walls[i] => ~cells'[c].walls[i]

(* C23: generate changes only wall flags of populated slots and only from
   true to false: width, height and the neighbour slots stay as they are,
   a wall flag that is false never becomes true again, and after generate
   the wall flag of every slot without a neighbour is still true, the
   slots of cell 0 and cell N-1 that are drawn as entrance and exit
   among them. *)
C23_GenerateOnlyOpensWalls ==
    /\ [][GenerateStepFrame /\ WallNeverCloses]_vars
    /\ [](pc = "generated" =>
            \A c \in Cells : \A i \in DOMAIN cells[c].walls :
                cells[c].neighbors[i] = None => cells[c].walls[i])

(* generate has returned on a grid of six or more cells with five or more
   wall-pairs open, and cell 0 and cell N-1 keep a closed outer wall *)
C23_Witness ==
    /\ pc = "generated"
    /\ NumCells >= 6
    /\ Cardinality(OpenPairs(cells)) >= 5
    /\ \E i \in DOMAIN cells[0].walls :
          cells[0].neighbors[i] = None /\ cells[0].walls[i]
    /\ \E i \in DOMAIN cells[EndCell].walls :
          cells[EndCell].neighbors[i] = None /\ cells[EndCell].walls[i]

(* C24: at every step of generate the stack, read from the bottom, is a
   simple path of open walls that starts at cell 0: while it is not empty
   its bottom entry is cell 0, no cell occurs twice, and every two
   consecutive entries are neighbours whose wall-pair is open on both
   sides. *)
C24_StackIsOpenPath ==
    pc = "generate" =>
        /\ stack # << >> => stack[1] = 0
        /\ \A i \in 1 .. Len(stack) : \A j \in 1 .. Len(stack) :
              i # j => stack[i] # stack[j]
        /\ \A k \in 1 .. (Len(stack) - 1) :
              /\ OpenStep(cells, stack[k], stack[k + 1])
              /\ OpenStep(cells, stack[k + 1], stack[k])

(* after a backtrack: the stack is a path of four or more cells from cell 0
   and some visited cell is no longer on it *)
C24_Witness ==
    /\ pc = "generate"
    /\ Len(stack) >= 4
    /\ Cardinality(VisitedSet) > Len(stack)
    /\ stack[1] = 0
    /\ \A k \in 1 .. (Len(stack) - 1) :
          OpenStep(cells, stack[k], stack[k + 1])

(* the reverse slot of each forward slot: N<->S and E<->W (square and
   octagon+square), NE<->SW and SE<->NW (octagon+square: slots 4<->7 and
   5<->6; hexagon: slots 2<->5 and 3<->4), left<->right and 2<->2
   (triangle) *)
PairedSlot(shape, i) ==
    CASE shape = "Rectangular" -> <<1, 0, 3, 2>>[i + 1]
      [] shape = "Triangular"  -> <<1, 0, 2>>[i + 1]
      [] shape = "Hexagonal"   -> <<1, 0, 5, 4, 3, 2>>[i + 1]
      [] shape = "Octagonal"   -> <<1, 0, 3, 2, 7, 6, 5, 4>>[i + 1]

Sgn(n) == IF n > 0 THEN 1 ELSE IF n < 0 THEN -1 ELSE 0

(* the side of cell c on which the line of its slot i is drawn *)
LineSide(c, i) ==
    LET e == LineEnds(grid_type, XOf(c), YOf(c), i)
    IN  <<Sgn(e[1][1] + e[2][1]), Sgn(e[1][2] + e[2][2])>>

(* the side of cell c on which cell n is drawn *)
Toward(c, n) ==
    LET pc_ == CellPlace(grid_type, XOf(c), YOf(c))
        pn_ == CellPlace(grid_type, XOf(n), YOf(n))
    IN  <<Sgn(pn_[1] - pc_[1]), Sgn(pn_[2] - pc_[2])>>

(* C25: in every topology, for every cell c and every populated slot i of
   c holding n, the slots of n that hold c are exactly the one slot that
   the fixed pairing gives for i, whatever the cell and the grid size; so
   the reverse-slot scan finds one match; and the line of slot i is drawn
   on the side of c that faces n while the line of the paired slot is
   drawn on the side of n that faces c, the same wall. *)
C25_ReverseSlotFixed ==
    Built =>
        \A c \in Cells : \A i \in DOMAIN cells[c].neighbors :
            LET n == cells[c].neighbors[i]
                j == PairedSlot(grid_type, i)
            IN  n # None =>
                  /\ {k \in DOMAIN cells[n].neighbors :
                         cells[n].neighbors[k] = c} = {j}
                  /\ ReverseSlot(cells, n, c) = j
                  /\ LineSide(c, i) = Toward(c, n)
                  /\ LineSide(n, j) = Toward(n, c)
                  /\ Toward(n, c) = <<0 - Toward(c, n)[1], 0 - Toward(c, n)[2]>>

(* a hexagon grid with odd and even columns in which a carve has opened
   an edge through two different slots *)
C25_Witness ==
    /\ pc = "generate"
    /\ grid_type = "Hexagonal"
    /\ width >= 3
    /\ height >= 2
    /\ \E c \in Cells : \E i \in 2..5 :
          /\ cells[c].neighbors[i] # None
          /\ ~cells[c].walls[i]
          /\ XOf(c) % 2 = 1
          /\ ~cells[cells[c].neighbors[i]].walls[PairedSlot(grid_type, i)]

====
